---- MODULE Spec2Model ----
(***************************************************************************)
(* The streaming candle-reconciliation logic of GoldRushHyperliquidUI.tsx: *)
(* the Hyperliquid 'trades' handler that folds trades into one-minute      *)
(* candles (hlCandles), the GoldRush subscription handler that merges      *)
(* candle batches by timestamp (grCandles), and the effect that recomputes *)
(* the comparison metrics.                                                 *)
(*                                                                         *)
(* Numbers: prices, sizes and closes are integers here, and the mean price *)
(* deviation is an exact rational [num, den] in lowest terms; the code     *)
(* computes the same expressions in IEEE doubles.                          *)
(***************************************************************************)
EXTENDS Integers, Sequences, FiniteSets, TLC

\* Math.floor(trade.time / 60000) * 60000 (line 75)
BucketWidth == 60000

\* .slice(-100) of the trade aggregator (line 103), scaled down
HlMaxCandles == 3

\* .slice(-100) of the candle merger (line 192), scaled down
GrMaxCandles == 2

\* .slice(-500) of the raw trade buffer (line 71), scaled down
HlMaxTrades == 3

\* .slice(0, 50) of the log (line 52), scaled down
LogMax == 2

\* at most this many inputs (trades, candle records, rejected payloads) in a run
MaxInputs == 4

\* a 'trades' message carries 1..MaxTradesPerMsg trades
MaxTradesPerMsg == 2

\* a candle batch carries up to one record more than the series retains
MaxBatchLen == GrMaxCandles + 1

VARIABLES
    hlCandles,      \* useState<Candle[]>([]) (line 41): series A
    grCandles,      \* useState<Candle[]>([]) (line 42): series B
    metrics,        \* useState({matchedPct, meanPriceBps, avgLatencyDiffMs}) (line 45)
    effectPending,  \* the metrics effect is scheduled: a dependency changed (line 238)
    hlTrades,       \* useState<Trade[]>([]) (line 43): the raw trade buffer
    logs,           \* useState<string[]>([]) (line 44), newest entry first
    grApiKey,       \* GR_API_KEY is a non-empty string (line 36)
    hlOpen,         \* the Hyperliquid socket has opened (line 61)
    nTrades,        \* trades delivered so far
    nCandleRecs,    \* candle records delivered so far
    nRejected,      \* history: payloads delivered without a non-empty candle array
    received,       \* history: every trade delivered, in arrival order
    tailRun,        \* history: the trades received since the bucket last changed
    dropped         \* history: candles cut off by slice(-100), per series

vars == <<hlCandles, grCandles, metrics, effectPending, hlTrades, logs, grApiKey,
          hlOpen, nTrades, nCandleRecs, nRejected, received, tailRun, dropped>>

----------------------------------------------------------------------------
(* Arithmetic helpers *)

Max(a, b) == IF a >= b THEN a ELSE b

Min(a, b) == IF a <= b THEN a ELSE b

Abs(a) == IF a >= 0 THEN a ELSE -a

RECURSIVE Gcd(_, _)
Gcd(a, b) == IF b = 0 THEN a ELSE Gcd(b, a % b)

\* a non-negative number n / d as a double has it: a rational in lowest terms,
\* Infinity (1 / 0) when only d is 0, NaN (0 / 0) when both are
Rat(n, d) ==
    IF n = 0 /\ d = 0 THEN [num |-> 0, den |-> 0]
    ELSE LET g == Gcd(n, d) IN [num |-> n \div g, den |-> d \div g]

NaN == Rat(0, 0)

Infinity == Rat(1, 0)

\* x + y; Infinity + Infinity is Infinity, anything + NaN is NaN
RatAdd(x, y) ==
    IF x = Infinity /\ y = Infinity THEN Infinity
    ELSE Rat(x.num * y.den + y.num * x.den, x.den * y.den)

\* Math.round of the non-negative rational n/d: floor(n/d + 1/2)
MathRound(n, d) == (2 * n + d) \div (2 * d)

Last(s) == s[Len(s)]

\* Array.prototype.slice(0, n): the first n elements
SliceFirst(s, n) == IF Len(s) <= n THEN s ELSE SubSeq(s, 1, n)

\* slice(-n) cutting at the wrong end: the head is kept
SliceLastKeepsHead(s, n) == IF Len(s) <= n THEN s ELSE SubSeq(s, 1, n)

\* Array.prototype.slice(-n): the last n elements
SliceLast(s, n) == IF Len(s) <= n THEN s ELSE SubSeq(s, Len(s) - n + 1, Len(s))

----------------------------------------------------------------------------
(* Inputs *)

\* a decimal string of digits, as trade.px and trade.sz arrive
RECURSIVE ParseDigits(_, _)
ParseDigits(s, acc) ==
    IF s = <<>> THEN acc ELSE ParseDigits(Tail(s), 10 * acc + Head(s))

\* parseFloat(trade.px), parseFloat(trade.sz)
ParseFloat(s) == ParseDigits(s, 0)

\* new Date(c.timestamp).getTime() of an ISO time 00:MM:SS on the epoch day
DateGetTime(t) == t.min * 60000 + t.sec * 1000

TradeTimes == {1000, 61000}

\* <<px, sz>> as the exchange sends them
Quotes == { <<(<<5>>), (<<1>>)>>, <<(<<6>>), (<<2>>)>>, <<(<<0, 7>>), (<<1>>)>> }

Trades == { [time |-> t, px |-> q[1], sz |-> q[2]] : t \in TradeTimes, q \in Quotes }

SeqsUpTo(S, n) == UNION { [1..k -> S] : k \in 1..n }

TradeMessages == SeqsUpTo(Trades, MaxTradesPerMsg)

GrTimestamps == { [min |-> 0, sec |-> 0], [min |-> 1, sec |-> 0], [min |-> 1, sec |-> 30] }

GrCloses == {5, 6}

GrRecords ==
    { [timestamp |-> t, open |-> 5, high |-> 6, low |-> 5, close |-> c, volume |-> 3] :
        t \in GrTimestamps, c \in GrCloses }

CandleBatches == SeqsUpTo(GrRecords, MaxBatchLen)

\* what a payload holds at data.data.ohlcvCandlesForToken (wrapped) and at
\* data.ohlcvCandlesForToken (bare): nothing, an object that is no array, or an
\* array of records
Undefined == [kind |-> "undefined", items |-> <<>>]

NotAnArray == [kind |-> "object", items |-> <<>>]

ArrayOf(records) == [kind |-> "array", items |-> records]

CandlePayloads ==
    { [wrapped |-> ArrayOf(b), bare |-> Undefined] : b \in CandleBatches }
        \cup { [wrapped |-> Undefined, bare |-> ArrayOf(<<r>>)] : r \in GrRecords }

OtherPayloads ==
    { [wrapped |-> w, bare |-> Undefined] : w \in {Undefined, NotAnArray, ArrayOf(<<>>)} }
        \cup { [wrapped |-> Undefined, bare |-> b] : b \in {NotAnArray, ArrayOf(<<>>)} }
        \cup { [wrapped |-> w, bare |-> ArrayOf(<<r>>)] :
                 w \in {NotAnArray, ArrayOf(<<>>)}, r \in GrRecords }

Payloads == CandlePayloads \cup OtherPayloads

\* inputs nothing has validated: a trade priced 0, a candle record with close 0
\* and one without a close
UncheckedQuotes == { <<(<<0>>), (<<1>>)>>, <<(<<5>>), (<<1>>)>> }

UncheckedTrades ==
    { [time |-> t, px |-> q[1], sz |-> q[2]] : t \in {1000, 61000}, q \in UncheckedQuotes }

UncheckedTradeMessages == SeqsUpTo(UncheckedTrades, MaxTradesPerMsg)

UncheckedTimestamps == { [min |-> 0, sec |-> 0], [min |-> 1, sec |-> 0] }

UncheckedRecords ==
    { [timestamp |-> t, open |-> 5, high |-> 6, low |-> 5, close |-> c, volume |-> 3] :
        t \in UncheckedTimestamps, c \in {0, 5} }
        \cup { [timestamp |-> t, open |-> 5, high |-> 6, low |-> 5, volume |-> 3] :
                 t \in UncheckedTimestamps }

UncheckedPayloads ==
    { [wrapped |-> ArrayOf(b), bare |-> Undefined] : b \in SeqsUpTo(UncheckedRecords, 2) }

----------------------------------------------------------------------------
(* TradeAggregator: ws.onmessage, lines 67-108 *)

BucketStart(time) == (time \div BucketWidth) * BucketWidth

\* the update without close: price
UpdateLastKeepsClose(last, price, size) ==
    [last EXCEPT !.high = IF last.high >= price THEN last.high ELSE price,
                 !.low = IF last.low <= price THEN last.low ELSE price,
                 !.volume = last.volume + size]

\* the update with Math.max and Math.min exchanged
UpdateLastMinMaxSwapped(last, price, size) ==
    [last EXCEPT !.high = IF last.high <= price THEN last.high ELSE price,
                 !.low = IF last.low >= price THEN last.low ELSE price,
                 !.close = price,
                 !.volume = last.volume + size]

\* lines 84-90
UpdateLast(last, price, size) ==
    [last EXCEPT !.high = Max(last.high, price),
                 !.low = Min(last.low, price),
                 !.close = price,
                 !.volume = last.volume + size]

\* lines 95-102
NewCandle(ts, price, size) ==
    [ts |-> ts, open |-> price, high |-> price, low |-> price, close |-> price,
     volume |-> size]

\* the setHlCandles updater, lines 79-105
IngestTrade(prev, trade) ==
    LET ts == BucketStart(trade.time)
        price == ParseFloat(trade.px)
        size == ParseFloat(trade.sz)
    IN  IF prev # <<>> /\ Last(prev).ts = ts
        THEN SubSeq(prev, 1, Len(prev) - 1) \o <<UpdateLast(Last(prev), price, size)>>
        ELSE SliceLast(Append(prev, NewCandle(ts, price, size)), HlMaxCandles)

\* the trades of a message folded from the last to the first
RECURSIVE IngestTradesLastFirst(_, _)
IngestTradesLastFirst(prev, trades) ==
    IF trades = <<>> THEN prev
    ELSE IngestTrade(IngestTradesLastFirst(prev, Tail(trades)), Head(trades))

\* newTrades.forEach, line 74: the updaters run in array order
RECURSIVE IngestTrades(_, _)
IngestTrades(prev, trades) ==
    IF trades = <<>> THEN prev
    ELSE IngestTrades(IngestTrade(prev, Head(trades)), Tail(trades))

----------------------------------------------------------------------------
(* CandleMerger: the subscription's next callback, lines 163-197 *)

\* lines 173-181; a field the record lacks is undefined in the candle, which
\* is a candle without the field
ToCandle(c) ==
    IF "close" \in DOMAIN c
    THEN [ts |-> DateGetTime(c.timestamp), open |-> c.open, high |-> c.high,
          low |-> c.low, close |-> c.close, volume |-> c.volume]
    ELSE [ts |-> DateGetTime(c.timestamp), open |-> c.open, high |-> c.high,
          low |-> c.low, volume |-> c.volume]

\* newCandles.findIndex(nc => nc.ts === ts), line 183; 0 stands for -1
FindIndex(s, ts) ==
    IF \E i \in 1..Len(s) : s[i].ts = ts
    THEN CHOOSE i \in 1..Len(s) : s[i].ts = ts /\ \A j \in 1..(i - 1) : s[j].ts # ts
    ELSE 0

\* the loop body without the lookup: every record is pushed
MergeOneAlwaysPush(newCandles, c) == Append(newCandles, ToCandle(c))

\* the loop body that leaves an entry it finds as it is
MergeOneKeepsExisting(newCandles, c) ==
    IF FindIndex(newCandles, DateGetTime(c.timestamp)) >= 1
    THEN newCandles
    ELSE Append(newCandles, ToCandle(c))

\* the body of candles.forEach, lines 172-189
MergeOne(newCandles, c) ==
    LET candle == ToCandle(c)
        existsIndex == FindIndex(newCandles, candle.ts)
    IN  IF existsIndex >= 1
        THEN [newCandles EXCEPT ![existsIndex] = candle]
        ELSE Append(newCandles, candle)

RECURSIVE MergeAll(_, _)
MergeAll(newCandles, candles) ==
    IF candles = <<>> THEN newCandles
    ELSE MergeAll(MergeOne(newCandles, Head(candles)), Tail(candles))

\* one candle put in place in a series sorted by (a, b) => a.ts - b.ts
RECURSIVE InsertByTs(_, _)
InsertByTs(sorted, c) ==
    IF sorted = <<>> THEN <<c>>
    ELSE IF Last(sorted).ts <= c.ts THEN Append(sorted, c)
    ELSE Append(InsertByTs(SubSeq(sorted, 1, Len(sorted) - 1), c), Last(sorted))

\* newCandles.sort((a, b) => a.ts - b.ts), line 192 (a stable sort)
RECURSIVE SortByTs(_)
SortByTs(s) ==
    IF s = <<>> THEN <<>>
    ELSE InsertByTs(SortByTs(SubSeq(s, 1, Len(s) - 1)), Last(s))

\* the setGrCandles updater, lines 169-193
MergeCandles(prev, candles) ==
    SliceLast(SortByTs(MergeAll(prev, candles)), GrMaxCandles)

----------------------------------------------------------------------------
(* Reconciler: the metrics effect, lines 215-238 *)

\* an initial state that reports a full match
InitialMetricsFullMatch ==
    [matchedPct |-> 100, meanPriceBps |-> Rat(0, 1), avgLatencyDiffMs |-> 0]

\* lines 45-49
InitialMetrics ==
    [matchedPct |-> 0, meanPriceBps |-> Rat(0, 1), avgLatencyDiffMs |-> 0]

\* grCandles.find(c => c.ts === hl.ts), line 223; 0 stands for undefined
Find(s, ts) == FindIndex(s, ts)

\* Math.abs(hl.close - gr.close) / hl.close, line 226; a number less
\* undefined is NaN
PriceDiff(hl, gr) ==
    IF "close" \in DOMAIN gr THEN Rat(Abs(hl.close - gr.close), hl.close) ELSE NaN

\* hlCandles.forEach, lines 222-230, from candle i on
RECURSIVE Accumulate(_, _, _, _)
Accumulate(hl, gr, i, acc) ==
    IF i > Len(hl) THEN acc
    ELSE LET g == Find(gr, hl[i].ts)
         IN  IF g >= 1
             THEN Accumulate(hl, gr, i + 1,
                    [matches |-> acc.matches + 1,
                     priceDiffSum |-> RatAdd(acc.priceDiffSum, PriceDiff(hl[i], gr[g])),
                     count |-> acc.count + 1])
             ELSE Accumulate(hl, gr, i + 1, acc)

\* the mean taken over all of series A instead of the matched candles
ComputeMetricsOverAll(hl, gr) ==
    LET acc == Accumulate(hl, gr, 1,
                 [matches |-> 0, priceDiffSum |-> Rat(0, 1), count |-> 0])
    IN  [matchedPct |->
            IF acc.count > 0 THEN MathRound(acc.matches * 100, Len(hl)) ELSE 0,
         meanPriceBps |->
            IF acc.count > 0
            THEN Rat(acc.priceDiffSum.num * 10000, acc.priceDiffSum.den * Len(hl))
            ELSE Rat(0, 1),
         avgLatencyDiffMs |-> 0]

\* lines 232-236
ComputeMetrics(hl, gr) ==
    LET acc == Accumulate(hl, gr, 1,
                 [matches |-> 0, priceDiffSum |-> Rat(0, 1), count |-> 0])
    IN  [matchedPct |->
            IF acc.count > 0 THEN MathRound(acc.matches * 100, Len(hl)) ELSE 0,
         meanPriceBps |->
            IF acc.count > 0
            THEN Rat(acc.priceDiffSum.num * 10000, acc.priceDiffSum.den * acc.count)
            ELSE Rat(0, 1),
         avgLatencyDiffMs |-> 0]

----------------------------------------------------------------------------
(* History kept for the properties; no handler reads it *)

\* the trades received since the bucket of the incoming trades last changed
RunAfter(run, trade) ==
    IF run # <<>> /\ BucketStart(Last(run).time) = BucketStart(trade.time)
    THEN Append(run, trade)
    ELSE <<trade>>

RECURSIVE RunAfterAll(_, _)
RunAfterAll(run, trades) ==
    IF trades = <<>> THEN run
    ELSE RunAfterAll(RunAfter(run, Head(trades)), Tail(trades))

\* how many candles slice(-100) cuts off series A while the trades are folded in
RECURSIVE HlCutOff(_, _)
HlCutOff(prev, trades) ==
    IF trades = <<>> THEN 0
    ELSE LET next == IngestTrade(prev, Head(trades))
             appended == ~(prev # <<>> /\ Last(prev).ts = BucketStart(Head(trades).time))
         IN  (IF appended /\ Len(next) <= Len(prev) THEN 1 ELSE 0)
                + HlCutOff(next, Tail(trades))

\* how many candles slice(-100) cuts off series B when the batch is merged
GrCutOff(prev, candles) ==
    Len(MergeAll(prev, candles)) - Len(MergeCandles(prev, candles))

----------------------------------------------------------------------------
(* The state machine *)

\* addLog, lines 51-53
AddLog(prev, msg) == SliceFirst(<<msg>> \o prev, LogMax)

\* the updater with slice(0, 500): the oldest trades are kept
AppendTradesKeepsOldest(prev, newTrades) == SliceFirst(prev \o newTrades, HlMaxTrades)

\* the setHlTrades updater, line 71
AppendTrades(prev, newTrades) == SliceLast(prev \o newTrades, HlMaxTrades)

\* the effect without its early return
SubscribedWithoutKey == TRUE

\* the GoldRush effect stops short of the subscription without a key, lines 117-120
Subscribed == grApiKey

\* data?.data?.ohlcvCandlesForToken || data?.ohlcvCandlesForToken, line 165
CandlesOf(data) == IF data.wrapped.kind # "undefined" THEN data.wrapped ELSE data.bare

\* the test without candles.length > 0
IsArray(candles) == candles.kind = "array"

\* Array.isArray(candles) && candles.length > 0, line 167
IsCandleArray(candles) == candles.kind = "array" /\ Len(candles.items) > 0

\* the state after the component has mounted: the effects of lines 56 and 116
\* have run, the second one logging at line 118 or at line 206
Init ==
    /\ hlCandles = <<>>
    /\ grCandles = <<>>
    /\ metrics = InitialMetrics
    /\ effectPending = FALSE
    /\ hlTrades = <<>>
    /\ grApiKey \in BOOLEAN
    /\ logs = IF grApiKey
              THEN <<"Subscribing to HYPE on HYPERCORE_MAINNET">>
              ELSE <<"Missing GoldRush API Key">>
    /\ hlOpen = FALSE
    /\ nTrades = 0
    /\ nCandleRecs = 0
    /\ nRejected = 0
    /\ received = <<>>
    /\ tailRun = <<>>
    /\ dropped = [hl |-> 0, gr |-> 0]

\* ws.onopen, lines 61-65
HlOnOpen ==
    /\ ~hlOpen
    /\ hlOpen' = TRUE
    /\ logs' = AddLog(logs, "Hyperliquid WS Connected")
    /\ UNCHANGED <<hlCandles, grCandles, metrics, effectPending, hlTrades, grApiKey,
                   nTrades, nCandleRecs, nRejected, received, tailRun, dropped>>

\* ws.onmessage with data.channel === 'trades', lines 67-108
OnMessage(newTrades) ==
    /\ hlTrades' = AppendTrades(hlTrades, newTrades)
    /\ hlCandles' = IngestTrades(hlCandles, newTrades)
    /\ effectPending' = TRUE
    /\ nTrades' = nTrades + Len(newTrades)
    /\ received' = received \o newTrades
    /\ tailRun' = RunAfterAll(tailRun, newTrades)
    /\ dropped' = [dropped EXCEPT !.hl = @ + HlCutOff(hlCandles, newTrades)]
    /\ UNCHANGED <<grCandles, metrics, logs, grApiKey, hlOpen, nCandleRecs, nRejected>>

HlOnMessage ==
    \E newTrades \in TradeMessages :
        /\ hlOpen
        /\ nTrades + nCandleRecs + nRejected + Len(newTrades) <= MaxInputs
        /\ OnMessage(newTrades)

\* the subscription's next callback, lines 163-197
OnNext(data) ==
    LET candles == CandlesOf(data)
    IN  /\ nRejected' = nRejected + (IF candles.items = <<>> THEN 1 ELSE 0)
        /\ IF IsCandleArray(candles)
           THEN /\ grCandles' = MergeCandles(grCandles, candles.items)
                /\ effectPending' = TRUE
                /\ nCandleRecs' = nCandleRecs + Len(candles.items)
                /\ dropped' = [dropped EXCEPT !.gr = @ + GrCutOff(grCandles, candles.items)]
                /\ UNCHANGED logs
           ELSE /\ logs' = AddLog(logs, "GR: Received empty or invalid data: ")
                /\ UNCHANGED <<grCandles, effectPending, nCandleRecs, dropped>>
        /\ UNCHANGED <<hlCandles, metrics, hlTrades, grApiKey, hlOpen, nTrades,
                       received, tailRun>>

GrNext ==
    \E data \in Payloads :
        /\ Subscribed
        /\ nTrades + nCandleRecs + nRejected + Max(1, Len(CandlesOf(data).items))
              <= MaxInputs
        /\ OnNext(data)

\* an effect that also cuts series A down to its matched candles
MetricsEffectKeepsMatched ==
    /\ effectPending
    /\ effectPending' = FALSE
    /\ metrics' = IF Len(hlCandles) = 0 \/ Len(grCandles) = 0
                  THEN metrics
                  ELSE ComputeMetrics(hlCandles, grCandles)
    /\ hlCandles' = LET IsMatched(c) == Find(grCandles, c.ts) >= 1
                    IN  SelectSeq(hlCandles, IsMatched)
    /\ UNCHANGED <<grCandles, hlTrades, logs, grApiKey, hlOpen, nTrades,
                   nCandleRecs, nRejected, received, tailRun, dropped>>

\* the effect on [hlCandles, grCandles], lines 215-238
MetricsEffect ==
    /\ effectPending
    /\ effectPending' = FALSE
    /\ metrics' = IF Len(hlCandles) = 0 \/ Len(grCandles) = 0
                  THEN metrics
                  ELSE ComputeMetrics(hlCandles, grCandles)
    /\ UNCHANGED <<hlCandles, grCandles, hlTrades, logs, grApiKey, hlOpen, nTrades,
                   nCandleRecs, nRejected, received, tailRun, dropped>>

Next == HlOnOpen \/ HlOnMessage \/ GrNext \/ MetricsEffect

Spec == Init /\ [][Next]_vars

\* the candle feed alone: the Hyperliquid socket delivers nothing
NextGr == GrNext \/ MetricsEffect

SpecGr == Init /\ [][NextGr]_vars

\* both feeds with inputs nothing has validated
HlOnMessageUnchecked ==
    \E newTrades \in UncheckedTradeMessages :
        /\ hlOpen
        /\ nTrades + nCandleRecs + nRejected + Len(newTrades) <= MaxInputs
        /\ OnMessage(newTrades)

GrNextUnchecked ==
    \E data \in UncheckedPayloads :
        /\ Subscribed
        /\ nTrades + nCandleRecs + nRejected + Len(CandlesOf(data).items) <= MaxInputs
        /\ OnNext(data)

NextUnchecked == HlOnOpen \/ HlOnMessageUnchecked \/ GrNextUnchecked \/ MetricsEffect

SpecUnchecked == Init /\ [][NextUnchecked]_vars

----------------------------------------------------------------------------
(* Properties *)

RECURSIVE SumOfSizes(_)
SumOfSizes(trades) ==
    IF trades = <<>> THEN 0 ELSE ParseFloat(Head(trades).sz) + SumOfSizes(Tail(trades))

\* C1: the tail candle of series A aggregates the trades received since the
\* bucket last changed: ts is their time floored to the minute, open the first
\* price, high the largest, low the smallest, close the last, volume the sum of
\* the sizes; a single trade in a new bucket gives open = high = low = close =
\* its price and volume = its size.
C1_TailCandleAggregatesRun ==
    tailRun # <<>> =>
        /\ hlCandles # <<>>
        /\ LET c == Last(hlCandles)
               n == Len(tailRun)
               prices == { ParseFloat(tailRun[i].px) : i \in 1..n }
           IN  /\ \A i \in 1..n : c.ts = tailRun[i].time - (tailRun[i].time % 60000)
               /\ c.open = ParseFloat(tailRun[1].px)
               /\ c.close = ParseFloat(tailRun[n].px)
               /\ c.high \in prices /\ \A p \in prices : p <= c.high
               /\ c.low \in prices /\ \A p \in prices : c.low <= p
               /\ c.volume = SumOfSizes(tailRun)

\* three trades of one bucket with the last price strictly between the others
C1_Witness ==
    /\ Len(tailRun) = 3
    /\ hlCandles # <<>>
    /\ Last(hlCandles).open < Last(hlCandles).close
    /\ Last(hlCandles).close < Last(hlCandles).high

\* series A: the candles that leave are the first k, the others keep their
\* order, and the candle of the latest trade is the tail
HlHeadEvicted ==
    /\ \E k \in 0..Len(hlCandles) :
        /\ k > 0 => Len(hlCandles') = HlMaxCandles
        /\ Len(hlCandles') >= Len(hlCandles) - k
        /\ \A i \in (k + 1)..Len(hlCandles) :
            /\ hlCandles'[i - k].ts = hlCandles[i].ts
            /\ i < Len(hlCandles) => hlCandles'[i - k] = hlCandles[i]
    /\ tailRun' # tailRun =>
        /\ hlCandles' # <<>>
        /\ Last(hlCandles').ts =
              Last(tailRun').time - (Last(tailRun').time % 60000)

\* series B: a timestamp that leaves is older than every timestamp that stays
GrOldestEvicted ==
    \A i \in 1..Len(grCandles) :
        (\A j \in 1..Len(grCandles') : grCandles'[j].ts # grCandles[i].ts) =>
            /\ Len(grCandles') = GrMaxCandles
            /\ \A j \in 1..Len(grCandles') : grCandles[i].ts < grCandles'[j].ts

SameTsTwice(b) == \E i, j \in 1..Len(b) : i < j /\ b[i].timestamp = b[j].timestamp

OutOfOrder(b) ==
    \E i, j \in 1..Len(b) : i < j /\ DateGetTime(b[i].timestamp) > DateGetTime(b[j].timestamp)

\* C3: merging a candle batch into series B twice in a row gives the series
\* that merging it once gives, for every batch and every reachable series B.
C3_MergeIdempotent ==
    \A b \in CandleBatches :
        MergeCandles(MergeCandles(grCandles, b), b) = MergeCandles(grCandles, b)

\* a full series B that has lost a candle, and a batch longer than the
\* series, with a repeated timestamp and out of order, that changes it
C3_Witness ==
    /\ Len(grCandles) = GrMaxCandles
    /\ dropped.gr > 0
    /\ \E b \in CandleBatches :
        /\ Len(b) > GrMaxCandles
        /\ SameTsTwice(b)
        /\ OutOfOrder(b)
        /\ MergeCandles(grCandles, b) # grCandles

\* the batch with the close of record i changed
Revised(b, i, close) == [b EXCEPT ![i].close = close]

\* the last record of the batch that carries the timestamp of record i
LastWithTs(b, i) ==
    CHOOSE j \in 1..Len(b) :
        /\ b[j].timestamp = b[i].timestamp
        /\ \A k \in (j + 1)..Len(b) : b[k].timestamp # b[i].timestamp

\* merging the revised batch keeps the length, the order and every entry of
\* another timestamp
RevisionFrame(s1, s2, ts) ==
    /\ Len(s2) = Len(s1)
    /\ \A j \in 1..Len(s1) :
        /\ s2[j].ts = s1[j].ts
        /\ s1[j].ts # ts => s2[j] = s1[j]

\* C4 as stated: after a batch is merged, merging it again with the close of
\* one record changed replaces the entry of that record by the changed record
\* and leaves the other entries, the length and the order as they were.
C4_AsStated ==
    \A b \in CandleBatches : \A i \in 1..Len(b) : \A close \in GrCloses \ {b[i].close} :
        LET s1 == MergeCandles(grCandles, b)
            b2 == Revised(b, i, close)
            s2 == MergeCandles(s1, b2)
        IN  /\ RevisionFrame(s1, s2, DateGetTime(b[i].timestamp))
            /\ \E j \in 1..Len(s2) : s2[j] = ToCandle(b2[i])

\* C4 amended: the other entries, the length and the order are as they were,
\* and the entry with the timestamp of the changed record, if the series
\* retains one, is the last record of the changed batch with that timestamp
\* (the changed record itself when no later record shares its timestamp).
C4_ReplaceByKey ==
    \A b \in CandleBatches : \A i \in 1..Len(b) : \A close \in GrCloses \ {b[i].close} :
        LET s1 == MergeCandles(grCandles, b)
            b2 == Revised(b, i, close)
            s2 == MergeCandles(s1, b2)
            ts == DateGetTime(b[i].timestamp)
        IN  /\ RevisionFrame(s1, s2, ts)
            /\ \A j \in 1..Len(s2) :
                s2[j].ts = ts => s2[j] = ToCandle(b2[LastWithTs(b2, i)])

\* series B holds two candles and a one-record revision of a batch changes
\* exactly the close of one of them
C4_Witness ==
    /\ Len(grCandles) = GrMaxCandles
    /\ \E b \in CandleBatches : \E i \in 1..Len(b) : \E close \in GrCloses \ {b[i].close} :
        /\ grCandles = MergeCandles(grCandles, b)
        /\ LET s2 == MergeCandles(grCandles, Revised(b, i, close))
           IN  \E j \in 1..Len(s2) :
                /\ s2[j].close = close
                /\ grCandles[j].close = b[i].close
                /\ \A k \in 1..Len(s2) : k # j => s2[k] = grCandles[k]

\* C5: while series A or series B is empty the metrics are zero.
C5_EmptySeriesZeroMetrics ==
    (hlCandles = <<>> \/ grCandles = <<>>) =>
        /\ metrics.matchedPct = 0
        /\ metrics.meanPriceBps.num = 0

\* the effect has run with series A filled and series B still empty
C5_Witness ==
    /\ hlCandles # <<>>
    /\ grCandles = <<>>
    /\ ~effectPending

\* the candles of series A that have a candle of series B with their ts
Matched == { i \in 1..Len(hlCandles) : \E j \in 1..Len(grCandles) : grCandles[j].ts = hlCandles[i].ts }

Partner(i) == CHOOSE j \in 1..Len(grCandles) : grCandles[j].ts = hlCandles[i].ts

RECURSIVE ProductOfCloses(_)
ProductOfCloses(S) ==
    IF S = {} THEN 1
    ELSE LET i == CHOOSE x \in S : TRUE
         IN  hlCandles[i].close * ProductOfCloses(S \ {i})

\* the sum over S of |closeA - closeB| / closeA, times the product d of the closes
RECURSIVE ScaledDeviationSum(_, _)
ScaledDeviationSum(S, d) ==
    IF S = {} THEN 0
    ELSE LET i == CHOOSE x \in S : TRUE
         IN  Abs(hlCandles[i].close - grCandles[Partner(i)].close) * (d \div hlCandles[i].close)
                + ScaledDeviationSum(S \ {i}, d)

\* metrics.meanPriceBps = 10000 * (sum of |closeA - closeB| / closeA) / |Matched|
MeanDeviationAsClaimed ==
    IF Matched = {} THEN metrics.meanPriceBps.num = 0
    ELSE LET d == ProductOfCloses(Matched)
         IN  metrics.meanPriceBps.num * d * Cardinality(Matched)
                = 10000 * ScaledDeviationSum(Matched, d) * metrics.meanPriceBps.den

MetricsCurrent == ~effectPending /\ hlCandles # <<>> /\ grCandles # <<>>

StrictlyAscending(s) == \A i \in 1..(Len(s) - 1) : s[i].ts < s[i + 1].ts

\* C7: each candle series is strictly ascending by ts.
C7_SeriesStrictlyAscending ==
    /\ StrictlyAscending(hlCandles)
    /\ StrictlyAscending(grCandles)

\* C8: every candle of either series has a ts that is a multiple of 60000.
C8_TsMultipleOfBucketWidth ==
    /\ \A i \in 1..Len(hlCandles) : hlCandles[i].ts % 60000 = 0
    /\ \A i \in 1..Len(grCandles) : grCandles[i].ts % 60000 = 0

\* C9: a trade message delivered a second time leaves series A as it was
\* after the first delivery.
C9_RedeliveryIdempotent ==
    [][\A m \in TradeMessages :
          (nTrades' = nTrades + Len(m) /\ hlCandles' = IngestTrades(hlCandles, m))
              => IngestTrades(hlCandles', m) = hlCandles']_vars

\* C10: every candle of series A has low <= open <= high, low <= close <= high
\* and volume >= 0.
C10_CandleShape ==
    \A i \in 1..Len(hlCandles) :
        LET c == hlCandles[i]
        IN  /\ c.low <= c.open /\ c.open <= c.high
            /\ c.low <= c.close /\ c.close <= c.high
            /\ c.volume >= 0

\* a candle whose open lies strictly between its low and its high
C10_Witness ==
    \E i \in 1..Len(hlCandles) :
        /\ hlCandles[i].low < hlCandles[i].open
        /\ hlCandles[i].open < hlCandles[i].high
        /\ hlCandles[i].volume > 2

\* C11: a single trade whose bucket is earlier than the bucket of the tail
\* candle is dropped: series A is after the message what it was before it.
C11_LateTradeDropped ==
    [][\A t \in Trades :
          (/\ hlCandles # <<>>
           /\ BucketStart(t.time) < Last(hlCandles).ts
           /\ nTrades' = nTrades + 1
           /\ tailRun' = <<t>>
           /\ hlCandles' = IngestTrades(hlCandles, <<t>>))
              => hlCandles' = hlCandles]_vars

\* series A after the trades have arrived one message each, in this order
RECURSIVE OneMessagePerTrade(_, _)
OneMessagePerTrade(prev, trades) ==
    IF trades = <<>> THEN prev
    ELSE OneMessagePerTrade(IngestTrades(prev, <<Head(trades)>>), Tail(trades))

\* C12: series A after one message [t1, ..., tn] is series A after n messages
\* of one trade each, t1 first. The message of a step is what the step adds
\* to the trades received.
C12_BatchIsSequenceOfSingles ==
    [][nTrades' # nTrades =>
          hlCandles' = OneMessagePerTrade(hlCandles,
                          SubSeq(received', Len(received) + 1, Len(received')))]_vars

\* two trades of different prices have been folded into the tail candle, and a
\* message exists whose trades give another series when they are exchanged
C12_Witness ==
    /\ Len(hlCandles) >= 2
    /\ Len(tailRun) = 2
    /\ tailRun[1].px # tailRun[2].px
    /\ \E m \in TradeMessages :
          /\ Len(m) = 2
          /\ IngestTrades(hlCandles, m) # IngestTrades(hlCandles, <<m[2], m[1]>>)

\* C13: a trade message leaves series B as it is; a candle payload leaves
\* series A and the raw trade buffer as they are; the metrics effect leaves both
\* series as they are; and series A is the fold of the trades received so far,
\* wherever the candle payloads and the effect fell between them.
C13_FeedsIndependent ==
    [][/\ nTrades' # nTrades => grCandles' = grCandles
       /\ (nCandleRecs' # nCandleRecs \/ nRejected' # nRejected) =>
              (hlCandles' = hlCandles /\ hlTrades' = hlTrades)
       /\ (effectPending /\ ~effectPending') =>
              (hlCandles' = hlCandles /\ grCandles' = grCandles)
       /\ hlCandles' = IngestTrades(<<>>, received')]_vars

\* both feeds have delivered, a payload has been rejected and the effect has
\* run over a matched candle
C13_Witness ==
    /\ nTrades >= 1
    /\ hlTrades # <<>>
    /\ nCandleRecs >= 1
    /\ nRejected >= 1
    /\ ~effectPending
    /\ metrics.matchedPct > 0

\* C14: a candle payload whose ohlcvCandlesForToken is absent, no array or an
\* empty array changes neither series nor the metrics nor the scheduling of the
\* effect, and puts exactly one entry, the diagnostic, at the head of the log
\* (the log keeps its newest LogMax entries).
C14_RejectedPayloadOnlyLogged ==
    [][nRejected' = nRejected + 1 =>
          /\ hlCandles' = hlCandles
          /\ grCandles' = grCandles
          /\ metrics' = metrics
          /\ effectPending' = effectPending
          /\ Len(logs') = Min(Len(logs) + 1, LogMax)
          /\ logs'[1] = "GR: Received empty or invalid data: "
          /\ \A i \in 2..Len(logs') : logs'[i] = logs[i - 1]]_vars

\* two payloads have been rejected with both series filled; their diagnostics
\* are all the full log holds
C14_Witness ==
    /\ nRejected = 2
    /\ hlCandles # <<>>
    /\ grCandles # <<>>
    /\ Len(logs) = LogMax
    /\ \A i \in 1..Len(logs) : logs[i] = "GR: Received empty or invalid data: "

\* C15: a candle record that lacks a numeric field never reaches series B:
\* it is neither inserted nor put in the place of an entry.
C15_MalformedRecordSkipped ==
    \A i \in 1..Len(grCandles) :
        {"open", "high", "low", "close", "volume"} \subseteq DOMAIN grCandles[i]

\* C16: once the metrics are recomputed over series whose candles all have a
\* close, the mean deviation is finite, and a matched candle of series A with
\* close 0 counts as matched but adds no deviation term: with every matched
\* close 0 the mean deviation is 0.
C16_ZeroCloseGuarded ==
    (MetricsCurrent /\ \A j \in 1..Len(grCandles) : "close" \in DOMAIN grCandles[j]) =>
        /\ metrics.meanPriceBps.den # 0
        /\ metrics.matchedPct = MathRound(100 * Cardinality(Matched), Len(hlCandles))
        /\ (\A i \in Matched : hlCandles[i].close = 0) => metrics.meanPriceBps.num = 0

\* C17: without an API key no candle payload is ever delivered, the log holds
\* exactly one 'Missing GoldRush API Key' entry, series B is empty and the
\* metrics are zero, whatever trades have arrived.
C17_NoKeyNoCandles ==
    ~grApiKey =>
        /\ nCandleRecs = 0
        /\ nRejected = 0
        /\ Cardinality({ i \in 1..Len(logs) : logs[i] = "Missing GoldRush API Key" }) = 1
        /\ grCandles = <<>>
        /\ metrics.matchedPct = 0
        /\ metrics.meanPriceBps = Rat(0, 1)
        /\ metrics.avgLatencyDiffMs = 0

\* no key, the socket open, trades of two buckets folded and the effect run
C17_Witness ==
    /\ ~grApiKey
    /\ hlOpen
    /\ nTrades >= 3
    /\ Len(hlCandles) >= 2
    /\ ~effectPending

\* C18: the raw trade buffer holds the last min(n, HlMaxTrades) of the n trades
\* received so far, in arrival order.
C18_TradeBufferIsSuffix ==
    /\ Len(hlTrades) = Min(Len(received), HlMaxTrades)
    /\ \A i \in 1..Len(hlTrades) :
          hlTrades[i] = received[Len(received) - Len(hlTrades) + i]

\* more trades have been received than the buffer holds, and the first one
\* received, now gone, differs from the oldest one held
C18_Witness ==
    /\ Len(received) > HlMaxTrades
    /\ Len(hlTrades) = HlMaxTrades
    /\ hlTrades[1] # received[1]

====
